---------------------------- MODULE Spec2Model ----------------------------
(***************************************************************************)
(* The user router of fastapi_project_template/routes/user.py: six         *)
(* endpoints over a store of User records.  Requests are dispatched        *)
(* through the router's route table in registration order, then the        *)
(* matched endpoint runs against the store.                                *)
(***************************************************************************)
EXTENDS Integers, Sequences, FiniteSets, TLC

VARIABLES store, nextId, inflight, last

vars == <<store, nextId, inflight, last>>

(* ---------------------------- bounds ---------------------------------- *)

\* Ids handed out by the store are 1..MaxId; creation stops there.
MaxId == 2

\* At most this many delete requests are between lookup and commit at once.
MaxInflight == 2

\* Usernames a creation payload may carry.
Names == {"bob", "1"}

\* Plaintext passwords a client may submit.
Plain == {"pw1", "pw2"}

Ids == 1..MaxId

\* Ids a request may name: every id the store can hand out, and one it never does.
ReqIds == 1..(MaxId + 1)

(* ------------------------- data conversions --------------------------- *)

\* Decimal text of an id, the form in which it appears in a URL path.
IdText(i) == <<"1", "2", "3", "4", "5", "6", "7", "8", "9">>[i]

\* The one-way hash applied to a password before it is stored.
get_password_hash(p) == "$hash$" \o p

\* HashedPassword(v): the password-hashing constructor.
HashedPassword(p) == get_password_hash(p)

NoUser == [id |-> 0, username |-> "", password |-> "", superuser |-> FALSE]

\* User.from_orm(user): a User built from a creation payload; the password
\* field is hashed on the way in, the id is assigned by the store.
User_from_orm(payload, id) ==
    [id |-> id, username |-> payload.username,
     password |-> HashedPassword(payload.password),
     superuser |-> payload.superuser]

(* --------------------------- the store -------------------------------- *)

\* session.get(User, user_id): the record with that primary key, or none.
session_get(s, id) ==
    IF \E u \in s : u.id = id THEN CHOOSE u \in s : u.id = id ELSE NoUser

\* Authentication dependencies: the caller is a stored user (AuthenticatedUser),
\* and a superuser (AdminUser).  get_current_user yields that record.
AuthenticatedUser(c) == \E u \in store : u.id = c
AdminUser(c) == \E u \in store : u.id = c /\ u.superuser
get_current_user(c) == session_get(store, c)

(* --------------------------- the router ------------------------------- *)

Lit(s) == [param |-> FALSE, text |-> s]
Param(n) == [param |-> TRUE, text |-> n]

\* The route table, in the order the decorators register the endpoints.
Routes ==
    << [method |-> "GET",    path |-> <<>>,                                    endpoint |-> "list_users"],
       [method |-> "POST",   path |-> <<>>,                                    endpoint |-> "create_user"],
       [method |-> "PATCH",  path |-> <<Param("user_id"), Lit("password")>>,   endpoint |-> "update_user_password"],
       [method |-> "GET",    path |-> <<Param("user_id_or_username")>>,        endpoint |-> "query_user"],
       [method |-> "GET",    path |-> <<Lit("me")>>,                           endpoint |-> "my_profile"],
       [method |-> "DELETE", path |-> <<Param("user_id")>>,                    endpoint |-> "delete_user"] >>

\* A path pattern matches a request path segment by segment; a parameter
\* segment matches any text, a literal segment only itself.
Match(pattern, path) ==
    /\ Len(pattern) = Len(path)
    /\ \A i \in 1..Len(pattern) : pattern[i].param \/ pattern[i].text = path[i]

\* The endpoint of the first registered route that matches.
Dispatch(method, path) ==
    LET hits == {i \in 1..Len(Routes) :
                    Routes[i].method = method /\ Match(Routes[i].path, path)}
    IN  IF hits = {} THEN "none"
        ELSE Routes[CHOOSE i \in hits : \A j \in hits : i <= j].endpoint

(* --------------------------- responses -------------------------------- *)

Response(method, path, endpoint, caller, target, pw, pwc, status, body) ==
    [method |-> method, path |-> path, endpoint |-> endpoint, caller |-> caller,
     target |-> target, password |-> pw, password_confirm |-> pwc,
     status |-> status, body |-> body]

Init ==
    /\ store = {[id |-> 1, username |-> "admin",
                 password |-> get_password_hash("pw1"), superuser |-> TRUE]}
    /\ nextId = 2
    /\ inflight = {}
    /\ last = Response("", <<>>, "", 0, 0, "", "", 0, NoUser)

(* --------------------------- create_user ------------------------------ *)

create_user(c, payload) ==
    /\ AdminUser(c)
    /\ Dispatch("POST", <<>>) = "create_user"
    /\ nextId <= MaxId
    /\ IF \E u \in store : u.username = payload.username
       THEN \* uniqueness violation: the persistence error propagates
            /\ UNCHANGED <<store, nextId>>
            /\ last' = Response("POST", <<>>, "create_user", c, 0,
                                payload.password, "", 500, NoUser)
       ELSE LET db_user == User_from_orm(payload, nextId)
            IN  /\ store' = store \cup {db_user}
                /\ nextId' = nextId + 1
                /\ last' = Response("POST", <<>>, "create_user", c, db_user.id,
                                    payload.password, "", 200, db_user)
    /\ UNCHANGED inflight

(* ----------------------- update_user_password ------------------------ *)

\* The record `user` with its password replaced, as user.password = ... followed
\* by session.commit() leaves the store.
SetPassword(s, user, hashed) ==
    (s \ {user}) \cup {[user EXCEPT !.password = hashed]}

\* Variants of update_user_password, each with one slip a maintainer could make.

\* The confirmation check is dropped.
update_user_password_no_confirm(c, user_id, pw, pwc) ==
    /\ AuthenticatedUser(c)
    /\ LET user == session_get(store, user_id)
           current_user == get_current_user(c)
           Answer(status, body) ==
               Response("PATCH", <<IdText(user_id), "password">>,
                        "update_user_password", c, user_id, pw, pwc, status, body)
       IN  IF user = NoUser
           THEN /\ last' = Answer(404, NoUser)
                /\ UNCHANGED store
           ELSE IF user.id # current_user.id /\ ~current_user.superuser
           THEN /\ last' = Answer(403, NoUser)
                /\ UNCHANGED store
           ELSE /\ store' = SetPassword(store, user, HashedPassword(pw))
                /\ last' = Answer(200, [user EXCEPT !.password = HashedPassword(pw)])
    /\ UNCHANGED <<nextId, inflight>>

\* The submitted text is stored as it came.
update_user_password_plain(c, user_id, pw, pwc) ==
    /\ AuthenticatedUser(c)
    /\ LET user == session_get(store, user_id)
           current_user == get_current_user(c)
           Answer(status, body) ==
               Response("PATCH", <<IdText(user_id), "password">>,
                        "update_user_password", c, user_id, pw, pwc, status, body)
       IN  IF user = NoUser
           THEN /\ last' = Answer(404, NoUser)
                /\ UNCHANGED store
           ELSE IF user.id # current_user.id /\ ~current_user.superuser
           THEN /\ last' = Answer(403, NoUser)
                /\ UNCHANGED store
           ELSE IF pw # pwc
           THEN /\ last' = Answer(400, NoUser)
                /\ UNCHANGED store
           ELSE /\ store' = SetPassword(store, user, pw)
                /\ last' = Answer(200, [user EXCEPT !.password = pw])
    /\ UNCHANGED <<nextId, inflight>>

\* The permission check loses its negation: it refuses superusers, not others.
update_user_password_no_negation(c, user_id, pw, pwc) ==
    /\ AuthenticatedUser(c)
    /\ LET user == session_get(store, user_id)
           current_user == get_current_user(c)
           Answer(status, body) ==
               Response("PATCH", <<IdText(user_id), "password">>,
                        "update_user_password", c, user_id, pw, pwc, status, body)
       IN  IF user = NoUser
           THEN /\ last' = Answer(404, NoUser)
                /\ UNCHANGED store
           ELSE IF user.id # current_user.id /\ current_user.superuser
           THEN /\ last' = Answer(403, NoUser)
                /\ UNCHANGED store
           ELSE IF pw # pwc
           THEN /\ last' = Answer(400, NoUser)
                /\ UNCHANGED store
           ELSE /\ store' = SetPassword(store, user, HashedPassword(pw))
                /\ last' = Answer(200, [user EXCEPT !.password = HashedPassword(pw)])
    /\ UNCHANGED <<nextId, inflight>>

\* The password is assigned and committed before the confirmation is compared.
update_user_password_early_commit(c, user_id, pw, pwc) ==
    /\ AuthenticatedUser(c)
    /\ LET user == session_get(store, user_id)
           current_user == get_current_user(c)
           Answer(status, body) ==
               Response("PATCH", <<IdText(user_id), "password">>,
                        "update_user_password", c, user_id, pw, pwc, status, body)
       IN  IF user = NoUser
           THEN /\ last' = Answer(404, NoUser)
                /\ UNCHANGED store
           ELSE IF user.id # current_user.id /\ ~current_user.superuser
           THEN /\ last' = Answer(403, NoUser)
                /\ UNCHANGED store
           ELSE /\ store' = SetPassword(store, user, HashedPassword(pw))
                /\ last' = IF pw # pwc THEN Answer(400, NoUser)
                           ELSE Answer(200, [user EXCEPT !.password = HashedPassword(pw)])
    /\ UNCHANGED <<nextId, inflight>>

update_user_password(c, user_id, pw, pwc) ==
    /\ AuthenticatedUser(c)
    /\ Dispatch("PATCH", <<IdText(user_id), "password">>) = "update_user_password"
    /\ LET user == session_get(store, user_id)
           current_user == get_current_user(c)
           path == <<IdText(user_id), "password">>
           Answer(status, body) ==
               Response("PATCH", path, "update_user_password", c, user_id,
                        pw, pwc, status, body)
       IN  IF user = NoUser
           THEN /\ last' = Answer(404, NoUser)
                /\ UNCHANGED store
           ELSE IF user.id # current_user.id /\ ~current_user.superuser
           THEN /\ last' = Answer(403, NoUser)
                /\ UNCHANGED store
           ELSE IF pw # pwc
           THEN /\ last' = Answer(400, NoUser)
                /\ UNCHANGED store
           ELSE /\ store' = SetPassword(store, user, HashedPassword(pw))
                /\ last' = Answer(200, [user EXCEPT !.password = HashedPassword(pw)])
    /\ UNCHANGED <<nextId, inflight>>

(* ---------------------- query_user and my_profile ---------------------- *)

\* Truthiness of the query object tested by `if user := session.query(...)`:
\* a query object is truthy whatever rows it would select.
QueryIsTruthy(matches) == TRUE

\* Rows selected by or_(User.id == v, User.username == v) for the path text v.
QueryMatches(s, v) == {u \in s : IdText(u.id) = v \/ u.username = v}

\* The (status, body) pairs query_user can answer with.  first() takes a row
\* of an unordered selection, or nothing when no row matches; an endpoint that
\* returns nothing is answered with a null body (200) or a response validation
\* failure (500), depending on the framework build.
query_user(s, v) ==
    LET matches == QueryMatches(s, v)
    IN  IF QueryIsTruthy(matches)
        THEN IF matches = {}
             THEN {<<200, NoUser>>, <<500, NoUser>>}
             ELSE {<<200, u>> : u \in matches}
        ELSE {<<404, NoUser>>}

\* my_profile returns the caller's record from the authentication context.
my_profile(current_user) == {<<200, current_user>>}

\* GET /<seg>/ : the router picks the endpoint, the endpoint answers.
http_get(c, seg) ==
    /\ AuthenticatedUser(c)
    /\ LET endpoint == Dispatch("GET", <<seg>>)
           answers == IF endpoint = "query_user" THEN query_user(store, seg)
                      ELSE IF endpoint = "my_profile"
                      THEN my_profile(get_current_user(c))
                      ELSE {}
       IN  \E a \in answers :
              last' = Response("GET", <<seg>>, endpoint, c, 0, "", "", a[1], a[2])
    /\ UNCHANGED <<store, nextId, inflight>>

(* ----------------------------- delete_user ----------------------------- *)

\* Variants of the check step of delete_user.

\* The self-check is dropped.
delete_user_check_no_self(c, user_id) ==
    /\ AdminUser(c)
    /\ LET user == session_get(store, user_id)
       IN  IF user = NoUser
           THEN /\ last' = Response("DELETE", <<IdText(user_id)>>, "delete_user", c,
                                    user_id, "", "", 404, NoUser)
                /\ UNCHANGED inflight
           ELSE /\ Cardinality(inflight) < MaxInflight
                /\ \A r \in inflight : r.caller # c
                /\ inflight' = inflight \cup {[caller |-> c, target |-> user_id]}
                /\ UNCHANGED last
    /\ UNCHANGED <<store, nextId>>

\* The not-found check is dropped: a missing row goes on to the delete.
delete_user_check_no_404(c, user_id) ==
    /\ AdminUser(c)
    /\ LET user == session_get(store, user_id)
           current_user == get_current_user(c)
       IN  IF user.id = current_user.id
           THEN /\ last' = Response("DELETE", <<IdText(user_id)>>, "delete_user", c,
                                    user_id, "", "", 403, NoUser)
                /\ UNCHANGED inflight
           ELSE /\ Cardinality(inflight) < MaxInflight
                /\ \A r \in inflight : r.caller # c
                /\ inflight' = inflight \cup {[caller |-> c, target |-> user_id]}
                /\ UNCHANGED last
    /\ UNCHANGED <<store, nextId>>

\* Lines up to the self-check: lookup, 404, 403.  A request that passes both
\* checks is in flight until its delete-and-commit step.
delete_user_check(c, user_id) ==
    /\ AdminUser(c)
    /\ Dispatch("DELETE", <<IdText(user_id)>>) = "delete_user"
    /\ LET user == session_get(store, user_id)
           current_user == get_current_user(c)
           Answer(status) ==
               Response("DELETE", <<IdText(user_id)>>, "delete_user", c, user_id,
                        "", "", status, NoUser)
       IN  IF user = NoUser
           THEN /\ last' = Answer(404)
                /\ UNCHANGED inflight
           ELSE IF user.id = current_user.id
           THEN /\ last' = Answer(403)
                /\ UNCHANGED inflight
           ELSE /\ Cardinality(inflight) < MaxInflight
                /\ \A r \in inflight : r.caller # c
                /\ inflight' = inflight \cup {[caller |-> c, target |-> user_id]}
                /\ UNCHANGED last
    /\ UNCHANGED <<store, nextId>>

\* session.delete(user); session.commit(); return {"ok": True}.  The DELETE is
\* by primary key; a row another request already removed deletes nothing.
delete_user_commit(r) ==
    /\ r \in inflight
    /\ store' = {u \in store : u.id # r.target}
    /\ inflight' = inflight \ {r}
    /\ last' = Response("DELETE", <<IdText(r.target)>>, "delete_user", r.caller,
                        r.target, "", "", 200, NoUser)
    /\ UNCHANGED nextId

(* ------------------------------------------------------------------------ *)

\* Path texts a GET may carry: usernames, id texts, "me", and an unused name.
Segs == Names \cup {IdText(i) : i \in ReqIds} \cup {"me", "nobody"}

Next ==
    \/ \E c \in Ids, n \in Names, p \in Plain, su \in BOOLEAN :
          create_user(c, [username |-> n, password |-> p, superuser |-> su])
    \/ \E c \in Ids, id \in ReqIds, p \in Plain, pc \in Plain :
          update_user_password(c, id, p, pc)
    \/ \E c \in Ids, seg \in Segs : http_get(c, seg)
    \/ \E c \in Ids, id \in ReqIds : delete_user_check(c, id)
    \/ \E r \in inflight : delete_user_commit(r)

Spec == Init /\ [][Next]_vars

(* ============================ properties ============================== *)

StoredIds(s) == {u.id : u \in s}
IsSuperuser(s, c) == \E u \in s : u.id = c /\ u.superuser

\* A step in which a response is produced.  Every endpoint overwrites `last`;
\* a step that leaves it as it was is a repeat of the same request with the
\* same answer and no effect, or a delete that passed its checks and has not
\* answered yet.
Answered == last' # last

PatchAnswered == Answered /\ last'.endpoint = "update_user_password"
DeleteAnswered == Answered /\ last'.endpoint = "delete_user"
Mismatch(r) == r.password # r.password_confirm

\* C1 (as stated): a password update whose password differs from its
\* confirmation is answered 400 and changes nothing, whoever the caller is and
\* whatever id is targeted.
C1_MismatchAlways400 ==
    [][(PatchAnswered /\ Mismatch(last'))
         => (last'.status = 400 /\ store' = store)]_vars

\* C1 (amended): a password update whose password differs from its
\* confirmation never changes the store; it is answered 404 when the target id
\* has no record, 403 when the caller is neither the target nor a superuser,
\* and 400 in every other case.
C1_MismatchNeverStored ==
    [][(PatchAnswered /\ Mismatch(last'))
         => /\ store' = store
            /\ last'.status =
                 IF last'.target \notin StoredIds(store) THEN 404
                 ELSE IF last'.target # last'.caller
                         /\ ~IsSuperuser(store, last'.caller) THEN 403
                 ELSE 400]_vars

\* A superuser sent mismatched passwords for another user's account and got 400.
C1_Witness ==
    /\ last.endpoint = "update_user_password"
    /\ Mismatch(last)
    /\ last.status = 400
    /\ last.target # last.caller

\* C2: GET /me/ is served by my_profile with the caller's own record.
C2_MeServedByMyProfile ==
    (last.method = "GET" /\ last.path = <<"me">>)
      => /\ last.endpoint = "my_profile"
         /\ last.status = 200
         /\ last.body = session_get(store, last.caller)

\* C3: a query for a value that is no stored id and no stored username is
\* answered 404.
C3_QueryMissIs404 ==
    (last.endpoint = "query_user" /\ QueryMatches(store, last.path[1]) = {})
      => last.status = 404

\* C4: every stored password is the hash of a submitted password and never a
\* plaintext; a record just created or just updated holds the hash of the
\* password that request submitted.
C4_PasswordsHashed ==
    /\ \A u \in store :
          /\ u.password \notin Plain
          /\ \E p \in Plain : u.password = get_password_hash(p)
    /\ (last.endpoint \in {"create_user", "update_user_password"}
          /\ last.status = 200)
         => /\ last.body.password = get_password_hash(last.password)
            /\ last.body \in store

\* A user was created with one password and then updated to the other.
C4_Witness ==
    /\ last.endpoint = "update_user_password"
    /\ last.status = 200
    /\ last.target = 2
    /\ last.password = "pw2"
    /\ last.body \in store

C6_CreateThenQuery ==
    [][(last.endpoint = "create_user" /\ last.status = 200
          /\ Answered /\ last'.endpoint = "query_user"
          /\ last'.path = <<last.body.username>>)
         => (last'.status = 200 /\ last'.body = last.body)]_vars

\* C7: a delete of the caller's own id is answered 403, and no step of a
\* delete request removes the record of the user who issued it.
C7_NoSelfDelete ==
    [][DeleteAnswered
         => /\ (last'.target = last'.caller => last'.status = 403)
            /\ \A u \in store : u.id = last'.caller => u \in store']_vars

\* A superuser asked to delete their own id and got 403.
C7_Witness ==
    /\ last.endpoint = "delete_user"
    /\ last.target = last.caller
    /\ last.status = 403
    /\ last.caller \in StoredIds(store)

\* C8: a delete whose lookup finds no record is answered 404 and changes
\* nothing; only a request whose lookup found its target goes on to delete.
C8_DeleteMissingIs404 ==
    [][/\ (DeleteAnswered /\ inflight' = inflight
             /\ last'.target \notin StoredIds(store))
            => (last'.status = 404 /\ store' = store /\ nextId' = nextId)
       /\ \A r \in inflight' \ inflight : r.target \in StoredIds(store)]_vars

\* A delete of an id with no record got 404 while other users were stored.
C8_Witness ==
    /\ last.endpoint = "delete_user"
    /\ last.status = 404
    /\ last.target \notin StoredIds(store)
    /\ Cardinality(store) = 2

\* C9: the store always holds a superuser (it starts with one, and only
\* superusers in the store issue deletes).
C9_SuperuserRemains == \E u \in store : u.superuser

\* C10: a password update or delete answered 404, 403 or 400 leaves the set
\* of records and every field of every record as it was.
C10_ErrorsChangeNothing ==
    [][((PatchAnswered \/ DeleteAnswered) /\ last'.status \in {400, 403, 404})
         => (store' = store /\ nextId' = nextId)]_vars

\* A delete was refused with 403 while another delete was between its check
\* and its commit.
C10_Witness ==
    /\ last.endpoint = "delete_user"
    /\ last.status = 403
    /\ inflight # {}
=============================================================================
